---- MODULE Spec2Model ----
(***************************************************************************)
(* NomadStore: the ACME account / certificate store backed by Nomad        *)
(* Variables (package acme).  The store keeps a write-through cache of     *)
(* accounts and certificates per resolver, a map of resolver -> variables  *)
(* path, and talks to Nomad through a two-operation client                 *)
(* (Create / GetVariableItems).  Every public method runs under ns.lock.   *)
(***************************************************************************)
EXTENDS Integers, Sequences, FiniteSets, TLC

(***************************************************************************)
(* Strings.  Go strings are TLA+ strings; the helpers below are the        *)
(* library functions the store calls, computed character by character.     *)
(***************************************************************************)

\* strings.TrimPrefix(s, prefix)
TrimPrefix(s, prefix) ==
    IF Len(s) >= Len(prefix) /\ SubSeq(s, 1, Len(prefix)) = prefix
    THEN SubSeq(s, Len(prefix) + 1, Len(s))
    ELSE s

\* unicode.ToLower on the letters that occur in the resolver names used here
LowerChar(c) ==
    CASE c = "L" -> "l"
      [] c = "E" -> "e"
      [] c = "P" -> "p"
      [] OTHER   -> c

RECURSIVE ToLower(_)
\* strings.ToLower(s)
ToLower(s) ==
    IF s = "" THEN ""
    ELSE LowerChar(SubSeq(s, 1, 1)) \o ToLower(SubSeq(s, 2, Len(s)))

\* The "/"-separated elements of s, in order (cur is the element being read).
SplitSlash(s, cur) ==
    LET split[x \in STRING, c \in STRING] ==
            IF x = "" THEN <<c>>
            ELSE IF SubSeq(x, 1, 1) = "/"
                 THEN <<c>> \o split[SubSeq(x, 2, Len(x)), ""]
                 ELSE split[SubSeq(x, 2, Len(x)), c \o SubSeq(x, 1, 1)]
    IN  split[s, cur]

\* path.Clean's element rules: drop "" and ".", let ".." cancel the element
\* before it, drop ".." at the start of a rooted path.
CleanElems(elems, out, rooted) ==
    LET clean[es \in Seq(STRING), o \in Seq(STRING)] ==
            IF es = <<>> THEN o
            ELSE LET e    == Head(es)
                     rest == Tail(es)
                 IN  IF e = "" \/ e = "." THEN clean[rest, o]
                     ELSE IF e = ".."
                          THEN IF o # <<>> /\ o[Len(o)] # ".."
                               THEN clean[rest, SubSeq(o, 1, Len(o) - 1)]
                               ELSE IF rooted THEN clean[rest, o]
                                    ELSE clean[rest, Append(o, e)]
                          ELSE clean[rest, Append(o, e)]
    IN  clean[elems, out]

JoinSlash(elems) ==
    LET join[es \in Seq(STRING)] ==
            IF es = <<>> THEN ""
            ELSE IF Len(es) = 1 THEN es[1]
                 ELSE es[1] \o "/" \o join[Tail(es)]
    IN  join[elems]

\* path.Clean(p)
PathClean(p) ==
    LET rooted == Len(p) >= 1 /\ SubSeq(p, 1, 1) = "/"
        body   == JoinSlash(CleanElems(SplitSlash(p, ""), <<>>, rooted))
        r      == IF rooted THEN "/" \o body ELSE body
    IN  IF r = "" THEN "." ELSE r

\* path.Join(a, b): empty elements are ignored, the rest joined and cleaned
PathJoin(a, b) ==
    IF a = "" /\ b = "" THEN ""
    ELSE IF a = "" THEN PathClean(b)
    ELSE IF b = "" THEN PathClean(a)
    ELSE PathClean(a \o "/" \o b)

(***************************************************************************)
(* Program constants.                                                      *)
(***************************************************************************)
ErrNone == ""
ErrNoNomadVariableForResolver == "no nomad variable set for resolver"
ErrVariablePathNotFound == "variable not found"

nomadStoreAccountType == "account"
nomadStoreCertsType == "certificates"
NomadScheme == "nomad://"

(***************************************************************************)
(* Go values.  A pointer or a slice is a record with a nil flag, so that   *)
(* nil and the empty slice stay distinct, as they do in Go and in JSON     *)
(* (null against []).                                                      *)
(***************************************************************************)
NilPtr == [nil |-> TRUE]
NilSlice == [nil |-> TRUE, elems |-> <<>>]
Slice(s) == [nil |-> FALSE, elems |-> s]
NoValue == [none |-> TRUE]

\* account1 of the tests, and an account whose optional parts are empty
account1 ==
    [nil |-> FALSE,
     Email |-> "test@example.com",
     Registration |-> [nil |-> FALSE,
                       Body |-> [Status |-> "valid",
                                 Contact |-> Slice(<<"test@example.com">>),
                                 TermsOfServiceAgreed |-> TRUE],
                       URI |-> "https://example.com/dir"],
     PrivateKey |-> Slice(<<1, 2, 3, 4, 5>>),
     KeyType |-> "FAKE"]

account2 ==
    [nil |-> FALSE,
     Email |-> "",
     Registration |-> NilPtr,
     PrivateKey |-> Slice(<<>>),
     KeyType |-> ""]

\* cert1 of the tests, and a bundle with an empty SANs list and empty bytes
cert1 ==
    [nil |-> FALSE,
     Domain |-> [Main |-> "subject", SANs |-> Slice(<<"one", "two">>)],
     Certificate |-> Slice(<<9, 8, 7, 6, 5>>),
     Key |-> Slice(<<5, 6, 7, 8, 9>>),
     Store |-> "default"]

cert2 ==
    [nil |-> FALSE,
     Domain |-> [Main |-> "other", SANs |-> Slice(<<>>)],
     Certificate |-> Slice(<<>>),
     Key |-> Slice(<<>>),
     Store |-> ""]

Accounts == {account1, account2}
CertLists == {Slice(<<>>), Slice(<<cert1, cert2>>)}

(***************************************************************************)
(* encoding/json.  A JSON text is modelled by its parse tree; a text that  *)
(* is not JSON is JInvalid and the empty text is JEmpty.  []byte encodes   *)
(* as a base64 string, a nil pointer or slice as null.                     *)
(***************************************************************************)
JNull == [t |-> "null"]
JEmpty == [t |-> "empty"]
JInvalid == [t |-> "invalid"]
JString(s) == [t |-> "string", s |-> s]
JBase64(b) == [t |-> "base64", b |-> b]
JBool(b) == [t |-> "bool", b |-> b]
JArray(a) == [t |-> "array", a |-> a]
JObject(o) == [t |-> "object", o |-> o]

ErrJSON == "json: cannot unmarshal"
ErrJSONEnd == "unexpected end of JSON input"

MarshalBytes(b) == IF b.nil THEN JNull ELSE JBase64(b.elems)

MarshalStrings(l) ==
    IF l.nil THEN JNull
    ELSE JArray([i \in 1..Len(l.elems) |-> JString(l.elems[i])])

MarshalRegistration(r) ==
    IF r.nil THEN JNull
    ELSE JObject([body |-> JObject([status |-> JString(r.Body.Status),
                                    contact |-> MarshalStrings(r.Body.Contact),
                                    termsOfServiceAgreed |-> JBool(r.Body.TermsOfServiceAgreed)]),
                  uri |-> JString(r.URI)])

\* json.Marshal(*Account)
MarshalAccount(a) ==
    IF a.nil THEN JNull
    ELSE JObject([Email |-> JString(a.Email),
                  Registration |-> MarshalRegistration(a.Registration),
                  PrivateKey |-> MarshalBytes(a.PrivateKey),
                  KeyType |-> JString(a.KeyType)])

MarshalCert(c) ==
    IF c.nil THEN JNull
    ELSE JObject([Domain |-> JObject([Main |-> JString(c.Domain.Main),
                                      SANs |-> MarshalStrings(c.Domain.SANs)]),
                  Certificate |-> MarshalBytes(c.Certificate),
                  Key |-> MarshalBytes(c.Key),
                  Store |-> JString(c.Store)])

\* json.Marshal([]*CertAndStore)
MarshalCerts(l) ==
    IF l.nil THEN JNull
    ELSE JArray([i \in 1..Len(l.elems) |-> MarshalCert(l.elems[i])])

\* A decoding result: the value and the error ("" for none).
Ok(v) == [err |-> ErrNone, val |-> v]
Fail(e) == [err |-> e, val |-> NoValue]

Field(o, name) == IF name \in DOMAIN o THEN o[name] ELSE JNull

UnmarshalString(j) ==
    IF j.t = "string" THEN Ok(j.s)
    ELSE IF j.t = "null" THEN Ok("")
    ELSE Fail(ErrJSON)

UnmarshalBool(j) ==
    IF j.t = "bool" THEN Ok(j.b)
    ELSE IF j.t = "null" THEN Ok(FALSE)
    ELSE Fail(ErrJSON)

UnmarshalBytes(j) ==
    IF j.t = "base64" THEN Ok(Slice(j.b))
    ELSE IF j.t = "null" THEN Ok(NilSlice)
    ELSE Fail(ErrJSON)

UnmarshalStrings(j) ==
    IF j.t = "null" THEN Ok(NilSlice)
    ELSE IF j.t # "array" THEN Fail(ErrJSON)
    ELSE IF \E i \in 1..Len(j.a) : j.a[i].t \notin {"string", "null"} THEN Fail(ErrJSON)
    ELSE Ok(Slice([i \in 1..Len(j.a) |-> UnmarshalString(j.a[i]).val]))

UnmarshalRegistration(j) ==
    IF j.t = "null" THEN Ok(NilPtr)
    ELSE IF j.t # "object" THEN Fail(ErrJSON)
    ELSE LET b == Field(j.o, "body") IN
         IF b.t \notin {"object", "null"} THEN Fail(ErrJSON)
         ELSE LET bo      == IF b.t = "object" THEN b.o ELSE <<>>
                  status  == UnmarshalString(Field(bo, "status"))
                  contact == UnmarshalStrings(Field(bo, "contact"))
                  terms   == UnmarshalBool(Field(bo, "termsOfServiceAgreed"))
                  uri     == UnmarshalString(Field(j.o, "uri"))
              IN  IF \E e \in {status.err, contact.err, terms.err, uri.err} : e # ErrNone
                  THEN Fail(ErrJSON)
                  ELSE Ok([nil |-> FALSE,
                           Body |-> [Status |-> status.val,
                                     Contact |-> contact.val,
                                     TermsOfServiceAgreed |-> terms.val],
                           URI |-> uri.val])

\* json.Unmarshal(text, &value) with value a *Account
UnmarshalAccount(j) ==
    IF j.t = "empty" THEN Fail(ErrJSONEnd)
    ELSE IF j.t = "null" THEN Ok(NilPtr)
    ELSE IF j.t # "object" THEN Fail(ErrJSON)
    ELSE LET email == UnmarshalString(Field(j.o, "Email"))
             reg   == UnmarshalRegistration(Field(j.o, "Registration"))
             key   == UnmarshalBytes(Field(j.o, "PrivateKey"))
             kt    == UnmarshalString(Field(j.o, "KeyType"))
         IN  IF \E e \in {email.err, reg.err, key.err, kt.err} : e # ErrNone
             THEN Fail(ErrJSON)
             ELSE Ok([nil |-> FALSE, Email |-> email.val, Registration |-> reg.val,
                      PrivateKey |-> key.val, KeyType |-> kt.val])

UnmarshalCert(j) ==
    IF j.t = "null" THEN Ok(NilPtr)
    ELSE IF j.t # "object" THEN Fail(ErrJSON)
    ELSE LET d == Field(j.o, "Domain") IN
         IF d.t \notin {"object", "null"} THEN Fail(ErrJSON)
         ELSE LET do    == IF d.t = "object" THEN d.o ELSE <<>>
                  main  == UnmarshalString(Field(do, "Main"))
                  sans  == UnmarshalStrings(Field(do, "SANs"))
                  cert  == UnmarshalBytes(Field(j.o, "Certificate"))
                  key   == UnmarshalBytes(Field(j.o, "Key"))
                  store == UnmarshalString(Field(j.o, "Store"))
              IN  IF \E e \in {main.err, sans.err, cert.err, key.err, store.err} : e # ErrNone
                  THEN Fail(ErrJSON)
                  ELSE Ok([nil |-> FALSE,
                           Domain |-> [Main |-> main.val, SANs |-> sans.val],
                           Certificate |-> cert.val, Key |-> key.val,
                           Store |-> store.val])

\* json.Unmarshal(text, &value) with value a []*CertAndStore
UnmarshalCerts(j) ==
    IF j.t = "empty" THEN Fail(ErrJSONEnd)
    ELSE IF j.t = "null" THEN Ok(NilSlice)
    ELSE IF j.t # "array" THEN Fail(ErrJSON)
    ELSE IF \E i \in 1..Len(j.a) : UnmarshalCert(j.a[i]).err # ErrNone THEN Fail(ErrJSON)
    ELSE Ok(Slice([i \in 1..Len(j.a) |-> UnmarshalCert(j.a[i]).val]))

(***************************************************************************)
(* The inputs and the bounds of the model.                                 *)
(***************************************************************************)
Resolvers == {"le", "LE"}
Hints == {"", "nomad://", "nomad://traefik/acme"}
Procs == {"t1", "t2"}
NoProc == "none"
RemoteErrors == {"oops"}

\* calls made on the store (by one goroutine, by concurrent goroutines) and
\* direct writes to Nomad
MaxOps == 3
MaxConcOps == 4
MaxExternal == 1
MaxRestartOps == 4
MaxLiveOps == 3

envNomadToken == "NOMAD_TOKEN"
envNomadSecretsDir == "NOMAD_SECRETS_DIR"
envNomadJob == "NOMAD_JOB_NAME"
envNomadGroup == "NOMAD_GROUP"
envNomadTask == "NOMAD_TASK_NAME"
EnvNames == {envNomadToken, envNomadSecretsDir, envNomadJob, envNomadGroup, envNomadTask}

MkEnv(token, dir, job, group, task) ==
    [n \in EnvNames |->
        CASE n = envNomadToken      -> token
          [] n = envNomadSecretsDir -> dir
          [] n = envNomadJob        -> job
          [] n = envNomadGroup      -> group
          [] n = envNomadTask       -> task]

\* setNomadStoreEnv of the tests; a task environment without job, group and
\* task; and the two environments that are not a compatible Nomad task
TaskEnv == MkEnv("659c8d84-1b2d-73ee-f6bb-6b2421055a61", "/some/path", "job1", "group1", "task1")
BareEnv == MkEnv("659c8d84-1b2d-73ee-f6bb-6b2421055a61", "/some/path", "", "", "")
NoTokenEnv == MkEnv("", "/some/path", "job1", "group1", "task1")
NoSecretsEnv == MkEnv("659c8d84-1b2d-73ee-f6bb-6b2421055a61", "", "job1", "group1", "task1")
NoEnv == MkEnv("", "", "", "", "")
Envs == {TaskEnv, BareEnv, NoTokenEnv, NoSecretsEnv, NoEnv}

\* api.Variable values written to Nomad directly, as the tests do before a get
ExternalVariables ==
    { [Path  |-> "nomad/jobs/job1/group1/task1/acme/le/account",
       Items |-> [k \in {"account"} |-> MarshalAccount(account1)]],
      [Path  |-> "nomad/jobs/job1/group1/task1/acme/le/certificates",
       Items |-> [k \in {"certificates"} |-> MarshalCerts(Slice(<<cert1>>))]],
      [Path  |-> "nomad/jobs/job1/group1/task1/acme/le/account",
       Items |-> [k \in {"account"} |-> JInvalid]],
      [Path  |-> "nomad/jobs/job1/group1/task1/acme/le/certificates",
       Items |-> [k \in {"other"} |-> JString("x")]],
      [Path  |-> "nomad/jobs/job1/group1/task1/acme/le/certificates",
       Items |-> [k \in {"certificates"} |-> MarshalCerts(Slice(<<>>))]] }

(***************************************************************************)
(* State.                                                                  *)
(***************************************************************************)
VARIABLES
    env,              \* the process environment (os.Getenv)
    ns,               \* "none" before MaybeNewNomadStore, then "nil" or "store"
    paths,            \* ns.paths: resolver name -> variables path
    accountCache,     \* ns.accountCache: resolver name -> *Account
    certCache,        \* ns.certCache: resolver name -> []*CertAndStore
    lock,             \* ns.lock: the goroutine holding it, or NoProc
    variables,        \* Nomad: path -> items of the variable stored there
    createHitCounter, \* Create calls served by Nomad
    getVarHitCounter, \* GetVariableItems calls served by Nomad
    pc,               \* per goroutine: idle, called, locked, remote, done
    call,             \* per goroutine: the method call it is in (or was last in)
    ret,              \* per goroutine: what its last call returned
    nOps, nExternal,  \* calls and direct writes made so far
    savedAccount,     \* history: resolver -> argument of the latest SaveAccount that wrote the cache
    savedCerts,       \* history: resolver -> argument of the latest SaveCertificates that wrote the cache
    returnedAccount   \* history: resolver -> argument of the latest SaveAccount that returned

vars == <<env, ns, paths, accountCache, certCache, lock, variables,
          createHitCounter, getVarHitCounter, pc, call, ret,
          nOps, nExternal, savedAccount, savedCerts, returnedAccount>>

storeVars == <<paths, accountCache, certCache>>
nomadVars == <<variables, createHitCounter, getVarHitCounter>>
budgetVars == <<nOps, nExternal>>
histVars == <<savedAccount, savedCerts, returnedAccount>>

MapSet(m, k, v) == [x \in DOMAIN m \cup {k} |-> IF x = k THEN v ELSE m[x]]

Ops == {"SetResolver", "GetAccount", "SaveAccount", "GetCertificates", "SaveCertificates"}

NoCall ==
    [op |-> "none", resolverName |-> "", variablesPath |-> "", p |-> "",
     ambient |-> <<>>,
     account |-> NilPtr, certificates |-> NilSlice, varPath |-> "",
     afterNotFound |-> FALSE,
     bound0 |-> FALSE, cached0 |-> FALSE, cachedVal0 |-> NoValue,
     gets0 |-> 0, creates0 |-> 0, nGet |-> 0, nCreate |-> 0, remoteErr |-> ErrNone,
     expectOn |-> FALSE, expectVal |-> NoValue]

\* gets, creates: by how much getVarHitCounter and createHitCounter grew
\* between the call's Lock and its return
NoRet == [val |-> NoValue, err |-> ErrNone, gets |-> 0, creates |-> 0]

\* os.Getenv
Getenv(name) == env[name]

Init ==
    /\ env \in Envs
    /\ ns = "none"
    /\ paths = <<>>
    /\ accountCache = <<>>
    /\ certCache = <<>>
    /\ lock = NoProc
    /\ variables = <<>>
    /\ createHitCounter = 0
    /\ getVarHitCounter = 0
    /\ pc = [t \in Procs |-> "idle"]
    /\ call = [t \in Procs |-> NoCall]
    /\ ret = [t \in Procs |-> NoRet]
    /\ nOps = 0
    /\ nExternal = 0
    /\ savedAccount = <<>>
    /\ savedCerts = <<>>
    /\ returnedAccount = <<>>

(***************************************************************************)
(* Construction and the environment.                                       *)
(***************************************************************************)
\* Mutation: one of the two variables is enough.
IsNomadTaskEither ==
    ~(Getenv(envNomadToken) = "" /\ Getenv(envNomadSecretsDir) = "")

\* the test MaybeNewNomadStore makes of the environment
IsNomadTask ==
    ~(Getenv(envNomadToken) = "" \/ Getenv(envNomadSecretsDir) = "")

MaybeNewNomadStore ==
    /\ ns = "none"
    /\ ns' = IF IsNomadTask THEN "store" ELSE "nil"
    /\ paths' = <<>>
    /\ accountCache' = <<>>
    /\ certCache' = <<>>
    /\ UNCHANGED <<env, lock, nomadVars, pc, call, ret, budgetVars, histVars>>

\* t.Setenv / os.Setenv while the store is in use
Setenv(e) ==
    /\ ns = "store"
    /\ e # env
    /\ env' = e
    /\ UNCHANGED <<ns, storeVars, lock, nomadVars, pc, call, ret, budgetVars, histVars>>

(***************************************************************************)
(* Nomad, as the tests' mockNomadVariablesAPI serves it; a call may also   *)
(* fail with an error of Nomad's own.                                      *)
(***************************************************************************)
\* The answers GetVariableItems(path) can give in the current state.
GetVariableItems(path) ==
    {[err |-> e, items |-> <<>>] : e \in RemoteErrors}
    \cup {IF path \in DOMAIN variables
          THEN [err |-> ErrNone, items |-> variables[path]]
          ELSE [err |-> ErrVariablePathNotFound, items |-> <<>>]}

\* The errors Create can return in the current state (ErrNone: it stored v).
CreateErrors == RemoteErrors \cup {ErrNone}

\* Nomad's variables after Create(v) returned err
Create(v, err) ==
    IF err # ErrNone THEN variables ELSE MapSet(variables, v.Path, v.Items)

\* ns.client.Create called directly, as the tests do to seed Nomad
ExternalCreate(v) ==
    /\ nExternal < MaxExternal
    /\ variables' = Create(v, ErrNone)
    /\ createHitCounter' = createHitCounter + 1
    /\ nExternal' = nExternal + 1
    /\ UNCHANGED <<env, ns, storeVars, lock, getVarHitCounter, pc, call, ret, nOps, histVars>>

(***************************************************************************)
(* The store's helpers.                                                    *)
(***************************************************************************)
\* Mutation: the resolver is appended to an explicit path too.
SetResolverPathWithResolver(resolverName, variablesPath) ==
    LET p == TrimPrefix(variablesPath, NomadScheme) IN
    IF p = ""
    THEN "nomad/jobs/" \o Getenv(envNomadJob) \o "/" \o Getenv(envNomadGroup)
         \o "/" \o Getenv(envNomadTask) \o "/acme/" \o ToLower(resolverName)
    ELSE p \o "/" \o ToLower(resolverName)

\* Mutation: the derived path keeps the resolver's case.
SetResolverPathKeepCase(resolverName, variablesPath) ==
    LET p == TrimPrefix(variablesPath, NomadScheme) IN
    IF p = ""
    THEN "nomad/jobs/" \o Getenv(envNomadJob) \o "/" \o Getenv(envNomadGroup)
         \o "/" \o Getenv(envNomadTask) \o "/acme/" \o resolverName
    ELSE p

\* Mutation: an empty remainder is bound as it is.
SetResolverPathNoDerive(resolverName, variablesPath) ==
    TrimPrefix(variablesPath, NomadScheme)

\* the path SetResolver computes before it takes the lock
SetResolverPath(resolverName, variablesPath) ==
    LET p == TrimPrefix(variablesPath, NomadScheme) IN
    IF p = ""
    THEN "nomad/jobs/" \o Getenv(envNomadJob) \o "/" \o Getenv(envNomadGroup)
         \o "/" \o Getenv(envNomadTask) \o "/acme/" \o ToLower(resolverName)
    ELSE p

\* History: the job, group and task SetResolver reads from the environment
\* (it reads them only when it derives the path)
SetResolverAmbient(variablesPath) ==
    IF TrimPrefix(variablesPath, NomadScheme) = ""
    THEN <<Getenv(envNomadJob), Getenv(envNomadGroup), Getenv(envNomadTask)>>
    ELSE <<>>

\* Mutation: the item type is not joined to the resolver's path.
pathForResolverLockedNoKind(resolverName, itemType) ==
    IF resolverName \notin DOMAIN paths \/ paths[resolverName] = ""
    THEN [path |-> "", exists |-> FALSE]
    ELSE [path |-> PathClean(paths[resolverName]), exists |-> TRUE]

\* Mutation: the path of a bound resolver is derived again from the
\* environment.
pathForResolverLockedRederive(resolverName, itemType) ==
    IF resolverName \notin DOMAIN paths \/ paths[resolverName] = ""
    THEN [path |-> "", exists |-> FALSE]
    ELSE [path |-> PathJoin(SetResolverPath(resolverName, ""), itemType), exists |-> TRUE]

\* Mutation: the binding is not checked; a missing path joins as "".
pathForResolverLockedNoCheck(resolverName, itemType) ==
    [path |-> PathJoin(IF resolverName \in DOMAIN paths THEN paths[resolverName] ELSE "",
                       itemType),
     exists |-> TRUE]

pathForResolverLocked(resolverName, itemType) ==
    IF resolverName \notin DOMAIN paths \/ paths[resolverName] = ""
    THEN [path |-> "", exists |-> FALSE]
    ELSE [path |-> PathJoin(paths[resolverName], itemType), exists |-> TRUE]

\* the type parameter T of get and put
TAccount == "*Account"
TCerts == "[]*CertAndStore"
Zero(T) == IF T = TAccount THEN NilPtr ELSE NilSlice
Marshal(T, item) == IF T = TAccount THEN MarshalAccount(item) ELSE MarshalCerts(item)
Unmarshal(T, s) == IF T = TAccount THEN UnmarshalAccount(s) ELSE UnmarshalCerts(s)

\* Mutation: put adds its item to the items already stored at the path.
putKeepSiblings(T, varPath, key, item) ==
    [Path |-> varPath,
     Items |-> MapSet(IF varPath \in DOMAIN variables THEN variables[varPath] ELSE <<>>,
                      key, Marshal(T, item))]

\* put[T] up to its call of Create: the variable it sends
put(T, varPath, key, item) ==
    [Path |-> varPath, Items |-> [k \in {key} |-> Marshal(T, item)]]

\* Mutation: get reads the item named by the variable's path, not by the key.
getItemAtPath(T, resp, key) ==
    IF resp.err # ErrNone THEN [err |-> resp.err, val |-> Zero(T)]
    ELSE LET s == IF "value" \in DOMAIN resp.items THEN resp.items["value"] ELSE JEmpty
             u == Unmarshal(T, s)
         IN  IF u.err # ErrNone THEN [err |-> u.err, val |-> Zero(T)] ELSE u

\* Mutation: the error of json.Unmarshal is dropped.
getIgnoreDecodeError(T, resp, key) ==
    IF resp.err # ErrNone THEN [err |-> resp.err, val |-> Zero(T)]
    ELSE LET s == IF key \in DOMAIN resp.items THEN resp.items[key] ELSE JEmpty
             u == Unmarshal(T, s)
         IN  [err |-> ErrNone, val |-> IF u.err # ErrNone THEN Zero(T) ELSE u.val]

\* get[T] from the answer of GetVariableItems on
get(T, resp, key) ==
    IF resp.err # ErrNone THEN [err |-> resp.err, val |-> Zero(T)]
    ELSE LET s == IF key \in DOMAIN resp.items THEN resp.items[key] ELSE JEmpty
             u == Unmarshal(T, s)
         IN  IF u.err # ErrNone THEN [err |-> u.err, val |-> Zero(T)] ELSE u

(***************************************************************************)
(* Calls.  A goroutine enters a method (Invoke), takes ns.lock (Lock),     *)
(* runs the method up to its remote call or its return, and on the remote  *)
(* answer runs it to its return.  The deferred Unlock is part of the       *)
(* returning step.                                                         *)
(***************************************************************************)
IsGet(op) == op \in {"GetAccount", "GetCertificates"}
IsSave(op) == op \in {"SaveAccount", "SaveCertificates"}
CacheOf(op) == IF op \in {"GetAccount", "SaveAccount"} THEN accountCache ELSE certCache

\* The calls a goroutine can make.
Calls ==
    {[NoCall EXCEPT !.op = "SetResolver", !.resolverName = r, !.variablesPath = h] :
        r \in Resolvers, h \in Hints}
    \cup {[NoCall EXCEPT !.op = op, !.resolverName = r] :
        op \in {"GetAccount", "GetCertificates"}, r \in Resolvers}
    \cup {[NoCall EXCEPT !.op = "SaveAccount", !.resolverName = r, !.account = a] :
        r \in Resolvers, a \in Accounts}
    \cup {[NoCall EXCEPT !.op = "SaveCertificates", !.resolverName = r, !.certificates = c] :
        r \in Resolvers, c \in CertLists}

\* The calls concurrent goroutines make in SpecConc.
ConcCalls ==
    {c \in Calls : /\ c.op = "SetResolver" => c.variablesPath = "nomad://"
                   /\ c.op \in {"GetAccount", "SaveAccount"} => c.resolverName = "le"
                   /\ c.op \in {"GetCertificates", "SaveCertificates"} => c.resolverName = "LE"
                   /\ c.op = "SaveCertificates" => c.certificates = Slice(<<cert1, cert2>>)}

ConcExternalVariables == {v \in ExternalVariables : v.Items = [k \in {"account"} |-> MarshalAccount(account1)]}

\* Goroutine u is inside a call of op on resolver r (entered, not returned).
InCall(u, op, r) ==
    /\ pc[u] \in {"called", "locked", "remote"}
    /\ call[u].op = op
    /\ call[u].resolverName = r

\* The call record of t as it enters call c.  SetResolver derives its path
\* here, before it locks.  History: a GetAccount entered while no SaveAccount
\* on its resolver is under way, and after one has returned, is expected to
\* return the argument of the latest one that returned.
Entered(t, c) ==
    LET e == IF c.op = "SetResolver"
             THEN [c EXCEPT !.p = SetResolverPath(c.resolverName, c.variablesPath),
                            !.ambient = SetResolverAmbient(c.variablesPath)]
             ELSE IF c.op = "GetAccount"
                     /\ c.resolverName \in DOMAIN returnedAccount
                     /\ \A u \in Procs \ {t} : ~InCall(u, "SaveAccount", c.resolverName)
             THEN [c EXCEPT !.expectOn = TRUE, !.expectVal = returnedAccount[c.resolverName]]
             ELSE c
    IN  \* History: t's call before this one was the same get on the same
        \* resolver and Nomad answered it with path-not-found
        [e EXCEPT !.afterNotFound =
            /\ c.op \in {"GetAccount", "GetCertificates"}
            /\ pc[t] = "done"
            /\ call[t].op = c.op
            /\ call[t].resolverName = c.resolverName
            /\ call[t].nGet = 1
            /\ call[t].remoteErr = ErrVariablePathNotFound]

\* Method entry.
Invoke(t, c, max) ==
    /\ ns = "store"
    /\ pc[t] \in {"idle", "done"}
    /\ nOps < max
    /\ call' = [u \in Procs |->
                  IF u = t THEN Entered(t, c)
                  ELSE IF c.op = "SaveAccount" /\ InCall(u, "GetAccount", c.resolverName)
                       THEN [call[u] EXCEPT !.expectOn = FALSE]
                       ELSE call[u]]
    /\ pc' = [pc EXCEPT ![t] = "called"]
    /\ ret' = [ret EXCEPT ![t] = NoRet]
    /\ nOps' = nOps + 1
    /\ UNCHANGED <<env, ns, storeVars, lock, nomadVars, nExternal, histVars>>

\* Mutation: Lock does not wait.
LockFreeAlways == TRUE

\* sync.Mutex: Lock returns only while no goroutine holds the mutex
LockFree == lock = NoProc

\* ns.lock.Lock()
Lock(t) ==
    /\ pc[t] = "called"
    /\ LockFree
    /\ lock' = t
    /\ pc' = [pc EXCEPT ![t] = "locked"]
    /\ LET r == call[t].resolverName
           c == CacheOf(call[t].op)
       IN  call' = [call EXCEPT
                      ![t].bound0 = r \in DOMAIN paths /\ paths[r] # "",
                      ![t].cached0 = call[t].op # "SetResolver" /\ r \in DOMAIN c,
                      ![t].cachedVal0 = IF call[t].op # "SetResolver" /\ r \in DOMAIN c
                                        THEN c[r] ELSE NoValue,
                      ![t].gets0 = getVarHitCounter,
                      ![t].creates0 = createHitCounter]
    /\ UNCHANGED <<env, ns, storeVars, nomadVars, ret, budgetVars, histVars>>

\* Mutation: the method returns without unlocking.
ReturnHoldingLock(t, val, err, gets, creates, nGet, nCreate, remoteErr) ==
    /\ pc' = [pc EXCEPT ![t] = "done"]
    /\ lock' = lock
    /\ ret' = [ret EXCEPT ![t] = [val |-> val, err |-> err,
                                  gets |-> gets - call[t].gets0,
                                  creates |-> creates - call[t].creates0]]
    /\ call' = [call EXCEPT ![t].gets0 = 0, ![t].creates0 = 0,
                            ![t].nGet = nGet, ![t].nCreate = nCreate,
                            ![t].remoteErr = remoteErr]

\* return val, err; the deferred ns.lock.Unlock() runs.  History: nGet and
\* nCreate are the remote calls the method made, remoteErr the error its remote
\* call returned, gets and creates are getVarHitCounter and createHitCounter
\* at the return.
Return(t, val, err, gets, creates, nGet, nCreate, remoteErr) ==
    /\ pc' = [pc EXCEPT ![t] = "done"]
    /\ lock' = NoProc
    /\ ret' = [ret EXCEPT ![t] = [val |-> val, err |-> err,
                                  gets |-> gets - call[t].gets0,
                                  creates |-> creates - call[t].creates0]]
    /\ call' = [call EXCEPT ![t].gets0 = 0, ![t].creates0 = 0,
                            ![t].nGet = nGet, ![t].nCreate = nCreate,
                            ![t].remoteErr = remoteErr]

\* Mutation: the lock is released before the remote call.
GoRemoteUnlocked(t, varPath) ==
    /\ pc' = [pc EXCEPT ![t] = "remote"]
    /\ call' = [call EXCEPT ![t].varPath = varPath]
    /\ lock' = NoProc
    /\ UNCHANGED ret

\* the method goes into its remote call, still holding the lock
GoRemote(t, varPath) ==
    /\ pc' = [pc EXCEPT ![t] = "remote"]
    /\ call' = [call EXCEPT ![t].varPath = varPath]
    /\ UNCHANGED <<lock, ret>>

\* Mutation: binding a resolver drops what is cached for it.
SetResolverEvicting(t) ==
    /\ pc[t] = "locked"
    /\ call[t].op = "SetResolver"
    /\ paths' = MapSet(paths, call[t].resolverName, call[t].p)
    /\ accountCache' = [r \in DOMAIN accountCache \ {call[t].resolverName} |-> accountCache[r]]
    /\ certCache' = [r \in DOMAIN certCache \ {call[t].resolverName} |-> certCache[r]]
    /\ Return(t, NoValue, ErrNone, getVarHitCounter, createHitCounter, 0, 0, ErrNone)
    /\ UNCHANGED <<env, ns, nomadVars, budgetVars, histVars>>

\* SetResolver under the lock: ns.paths[resolverName] = p
SetResolver(t) ==
    /\ pc[t] = "locked"
    /\ call[t].op = "SetResolver"
    /\ paths' = MapSet(paths, call[t].resolverName, call[t].p)
    /\ Return(t, NoValue, ErrNone, getVarHitCounter, createHitCounter, 0, 0, ErrNone)
    /\ UNCHANGED <<env, ns, accountCache, certCache, nomadVars, budgetVars, histVars>>

(***************************************************************************)
(* GetAccount / SaveAccount.                                               *)
(***************************************************************************)
\* Mutation: the account cache is never consulted.
accountCacheLookupMiss(resolverName) == [exists |-> FALSE, val |-> NilPtr]

\* account, exists := ns.accountCache[resolverName]
accountCacheLookup(resolverName) ==
    IF resolverName \in DOMAIN accountCache
    THEN [exists |-> TRUE, val |-> accountCache[resolverName]]
    ELSE [exists |-> FALSE, val |-> NilPtr]

\* Mutation: a path that is not found is cached as nil.
GetAccountResultCacheNotFound(resolverName, g) ==
    IF g.err = ErrVariablePathNotFound
    THEN [val |-> NilPtr, err |-> ErrNone, cache |-> MapSet(accountCache, resolverName, NilPtr)]
    ELSE IF g.err # ErrNone
    THEN [val |-> NilPtr, err |-> g.err, cache |-> accountCache]
    ELSE [val |-> g.val, err |-> ErrNone,
          cache |-> MapSet(accountCache, resolverName, g.val)]

\* Mutation: the fetched value is cached before the error is looked at.
GetAccountResultCacheOnErr(resolverName, g) ==
    IF g.err = ErrVariablePathNotFound
    THEN [val |-> NilPtr, err |-> ErrNone, cache |-> accountCache]
    ELSE [val |-> IF g.err # ErrNone THEN NilPtr ELSE g.val, err |-> g.err,
          cache |-> MapSet(accountCache, resolverName, g.val)]

\* GetAccount after get returned g: what it returns and the cache it leaves
GetAccountResult(resolverName, g) ==
    IF g.err = ErrVariablePathNotFound
    THEN [val |-> NilPtr, err |-> ErrNone, cache |-> accountCache]
    ELSE IF g.err # ErrNone
    THEN [val |-> NilPtr, err |-> g.err, cache |-> accountCache]
    ELSE [val |-> g.val, err |-> ErrNone,
          cache |-> MapSet(accountCache, resolverName, g.val)]

\* GetAccount from the lock to the cache hit, the missing path or the remote read
GetAccountLocked(t) ==
    /\ pc[t] = "locked"
    /\ call[t].op = "GetAccount"
    /\ LET r  == call[t].resolverName
           c  == accountCacheLookup(r)
           pr == pathForResolverLocked(r, nomadStoreAccountType)
       IN  IF c.exists
           THEN Return(t, c.val, ErrNone, getVarHitCounter, createHitCounter, 0, 0, ErrNone)
           ELSE IF ~pr.exists
           THEN Return(t, NilPtr, ErrNoNomadVariableForResolver, getVarHitCounter, createHitCounter, 0, 0, ErrNone)
           ELSE GoRemote(t, pr.path)
    /\ UNCHANGED <<env, ns, storeVars, nomadVars, budgetVars, histVars>>

\* GetAccount from Nomad's answer to its return
GetAccountRemote(t) ==
    /\ pc[t] = "remote"
    /\ call[t].op = "GetAccount"
    /\ \E resp \in GetVariableItems(call[t].varPath) :
         LET out == GetAccountResult(call[t].resolverName,
                                     get(TAccount, resp, nomadStoreAccountType))
         IN  /\ getVarHitCounter' = getVarHitCounter + 1
             /\ accountCache' = out.cache
             /\ Return(t, out.val, out.err, getVarHitCounter + 1, createHitCounter, 1, 0, resp.err)
    /\ UNCHANGED <<env, ns, paths, certCache, variables, createHitCounter, budgetVars, histVars>>

\* Mutation: SaveAccount does not write the cache.
SaveAccountCacheWriteNone(resolverName, account) == accountCache

\* ns.accountCache[resolverName] = account
SaveAccountCacheWrite(resolverName, account) ==
    MapSet(accountCache, resolverName, account)

\* SaveAccount from the lock to the missing path or the remote write
SaveAccountLocked(t) ==
    /\ pc[t] = "locked"
    /\ call[t].op = "SaveAccount"
    /\ LET r  == call[t].resolverName
           pr == pathForResolverLocked(r, nomadStoreAccountType)
       IN  /\ accountCache' = SaveAccountCacheWrite(r, call[t].account)
           /\ savedAccount' = MapSet(savedAccount, r, call[t].account)
           /\ IF ~pr.exists
              THEN /\ Return(t, NoValue, ErrNoNomadVariableForResolver,
                             getVarHitCounter, createHitCounter, 0, 0, ErrNone)
                   /\ returnedAccount' = MapSet(returnedAccount, r, call[t].account)
              ELSE /\ GoRemote(t, pr.path)
                   /\ UNCHANGED returnedAccount
    /\ UNCHANGED <<env, ns, paths, certCache, nomadVars, budgetVars, savedCerts>>

\* Mutation: put calls Create again when it failed.
putCreateCallsRetry(err) == IF err # ErrNone THEN 2 ELSE 1

\* the calls of Create one put makes, whatever Create returns
putCreateCalls(err) == 1

\* Mutation: the error of Create is dropped.
putErrorDropped(err) == ErrNone

\* the error a method returns for the error Create returned
putError(err) == err

\* SaveAccount from Nomad's answer to its return
SaveAccountRemote(t) ==
    /\ pc[t] = "remote"
    /\ call[t].op = "SaveAccount"
    /\ \E err \in CreateErrors :
         /\ variables' = Create(put(TAccount, call[t].varPath, nomadStoreAccountType,
                                    call[t].account), err)
         /\ createHitCounter' = createHitCounter + putCreateCalls(err)
         /\ Return(t, NoValue, putError(err), getVarHitCounter,
                   createHitCounter + putCreateCalls(err), 0, 1, err)
    /\ returnedAccount' = MapSet(returnedAccount, call[t].resolverName, call[t].account)
    /\ UNCHANGED <<env, ns, storeVars, getVarHitCounter, budgetVars, savedAccount, savedCerts>>

(***************************************************************************)
(* GetCertificates / SaveCertificates.                                     *)
(***************************************************************************)
\* certificates, exists := ns.certCache[resolverName]
certCacheLookup(resolverName) ==
    IF resolverName \in DOMAIN certCache
    THEN [exists |-> TRUE, val |-> certCache[resolverName]]
    ELSE [exists |-> FALSE, val |-> NilSlice]

\* Mutation: an empty list is returned and not cached.
GetCertificatesResultDropEmpty(resolverName, g) ==
    IF g.err = ErrVariablePathNotFound
    THEN [val |-> NilSlice, err |-> ErrNone, cache |-> certCache]
    ELSE IF g.err # ErrNone
    THEN [val |-> NilSlice, err |-> g.err, cache |-> certCache]
    ELSE [val |-> g.val, err |-> ErrNone,
          cache |-> IF Len(g.val.elems) = 0 THEN certCache
                    ELSE MapSet(certCache, resolverName, g.val)]

\* Mutation: path-not-found is cached as a nil list.
GetCertificatesResultCacheNotFound(resolverName, g) ==
    IF g.err = ErrVariablePathNotFound
    THEN [val |-> NilSlice, err |-> ErrNone, cache |-> MapSet(certCache, resolverName, NilSlice)]
    ELSE IF g.err # ErrNone
    THEN [val |-> NilSlice, err |-> g.err, cache |-> certCache]
    ELSE [val |-> g.val, err |-> ErrNone,
          cache |-> MapSet(certCache, resolverName, g.val)]

\* Mutation: path-not-found is returned like any other error.
GetCertificatesResultNotFoundErr(resolverName, g) ==
    IF g.err # ErrNone
    THEN [val |-> NilSlice, err |-> g.err, cache |-> certCache]
    ELSE [val |-> g.val, err |-> ErrNone,
          cache |-> MapSet(certCache, resolverName, g.val)]

\* GetCertificates after get returned g: what it returns and the cache it leaves
GetCertificatesResult(resolverName, g) ==
    IF g.err = ErrVariablePathNotFound
    THEN [val |-> NilSlice, err |-> ErrNone, cache |-> certCache]
    ELSE IF g.err # ErrNone
    THEN [val |-> NilSlice, err |-> g.err, cache |-> certCache]
    ELSE [val |-> g.val, err |-> ErrNone,
          cache |-> MapSet(certCache, resolverName, g.val)]

GetCertificatesLocked(t) ==
    /\ pc[t] = "locked"
    /\ call[t].op = "GetCertificates"
    /\ LET r  == call[t].resolverName
           c  == certCacheLookup(r)
           pr == pathForResolverLocked(r, nomadStoreCertsType)
       IN  IF c.exists
           THEN Return(t, c.val, ErrNone, getVarHitCounter, createHitCounter, 0, 0, ErrNone)
           ELSE IF ~pr.exists
           THEN Return(t, NilSlice, ErrNoNomadVariableForResolver, getVarHitCounter, createHitCounter, 0, 0, ErrNone)
           ELSE GoRemote(t, pr.path)
    /\ UNCHANGED <<env, ns, storeVars, nomadVars, budgetVars, histVars>>

GetCertificatesRemote(t) ==
    /\ pc[t] = "remote"
    /\ call[t].op = "GetCertificates"
    /\ \E resp \in GetVariableItems(call[t].varPath) :
         LET out == GetCertificatesResult(call[t].resolverName,
                                          get(TCerts, resp, nomadStoreCertsType))
         IN  /\ getVarHitCounter' = getVarHitCounter + 1
             /\ certCache' = out.cache
             /\ Return(t, out.val, out.err, getVarHitCounter + 1, createHitCounter, 1, 0, resp.err)
    /\ UNCHANGED <<env, ns, paths, accountCache, variables, createHitCounter, budgetVars, histVars>>

\* Mutation: the cache is written only for a resolver that has a path.
SaveCertificatesCacheWriteIfBound(resolverName, certificates) ==
    IF resolverName \in DOMAIN paths /\ paths[resolverName] # ""
    THEN MapSet(certCache, resolverName, certificates)
    ELSE certCache

\* ns.certCache[resolverName] = certificates
SaveCertificatesCacheWrite(resolverName, certificates) ==
    MapSet(certCache, resolverName, certificates)

SaveCertificatesLocked(t) ==
    /\ pc[t] = "locked"
    /\ call[t].op = "SaveCertificates"
    /\ LET r  == call[t].resolverName
           pr == pathForResolverLocked(r, nomadStoreCertsType)
       IN  /\ certCache' = SaveCertificatesCacheWrite(r, call[t].certificates)
           /\ savedCerts' = MapSet(savedCerts, r, call[t].certificates)
           /\ IF ~pr.exists
              THEN Return(t, NoValue, ErrNoNomadVariableForResolver,
                          getVarHitCounter, createHitCounter, 0, 0, ErrNone)
              ELSE GoRemote(t, pr.path)
    /\ UNCHANGED <<env, ns, paths, accountCache, nomadVars, budgetVars,
                   savedAccount, returnedAccount>>

SaveCertificatesRemote(t) ==
    /\ pc[t] = "remote"
    /\ call[t].op = "SaveCertificates"
    /\ \E err \in CreateErrors :
         /\ variables' = Create(put(TCerts, call[t].varPath, nomadStoreCertsType,
                                    call[t].certificates), err)
         /\ createHitCounter' = createHitCounter + putCreateCalls(err)
         /\ Return(t, NoValue, putError(err), getVarHitCounter,
                   createHitCounter + putCreateCalls(err), 0, 1, err)
    /\ UNCHANGED <<env, ns, storeVars, getVarHitCounter, budgetVars, histVars>>

(***************************************************************************)
(* The specification.                                                      *)
(***************************************************************************)
\* One goroutine uses the store, with every input; between its calls it may
\* change the task's environment and write to Nomad directly.
Between == pc["t1"] \in {"idle", "done"}

Next ==
    \/ MaybeNewNomadStore
    \/ \E e \in {TaskEnv, BareEnv} : Between /\ Setenv(e)
    \/ \E v \in ExternalVariables : Between /\ ExternalCreate(v)
    \/ \E c \in Calls : Invoke("t1", c, MaxOps)
    \/ Lock("t1")
    \/ SetResolver("t1")
    \/ GetAccountLocked("t1")
    \/ GetAccountRemote("t1")
    \/ SaveAccountLocked("t1")
    \/ SaveAccountRemote("t1")
    \/ GetCertificatesLocked("t1")
    \/ GetCertificatesRemote("t1")
    \/ SaveCertificatesLocked("t1")
    \/ SaveCertificatesRemote("t1")

Spec == Init /\ [][Next]_vars

\* Concurrent goroutines use the store.
NextConc ==
    \/ MaybeNewNomadStore
    \/ \E v \in ConcExternalVariables : ExternalCreate(v)
    \/ \E t \in Procs, c \in ConcCalls : Invoke(t, c, MaxConcOps)
    \/ \E t \in Procs : Lock(t)
    \/ \E t \in Procs : SetResolver(t)
    \/ \E t \in Procs : GetAccountLocked(t)
    \/ \E t \in Procs : GetAccountRemote(t)
    \/ \E t \in Procs : SaveAccountLocked(t)
    \/ \E t \in Procs : SaveAccountRemote(t)
    \/ \E t \in Procs : GetCertificatesLocked(t)
    \/ \E t \in Procs : GetCertificatesRemote(t)
    \/ \E t \in Procs : SaveCertificatesLocked(t)
    \/ \E t \in Procs : SaveCertificatesRemote(t)

SpecConc == Init /\ [][NextConc]_vars

\* The calls made on one resolver whose path is derived.
OwnerCalls ==
    {c \in Calls : c.resolverName = "le" /\ (c.op = "SetResolver" => c.variablesPath = "nomad://")}

\* The Traefik task ends and a new one starts: the store and what it holds
\* are gone, Nomad keeps its variables, and MaybeNewNomadStore runs again.
Restart ==
    /\ ns = "store"
    /\ \A t \in Procs : pc[t] \in {"idle", "done"}
    /\ ns' = "none"
    /\ paths' = <<>>
    /\ accountCache' = <<>>
    /\ certCache' = <<>>
    /\ pc' = [t \in Procs |-> "idle"]
    /\ call' = [t \in Procs |-> NoCall]
    /\ ret' = [t \in Procs |-> NoRet]
    /\ savedAccount' = <<>>
    /\ savedCerts' = <<>>
    /\ returnedAccount' = <<>>
    /\ UNCHANGED <<env, lock, nomadVars, budgetVars>>

\* One goroutine uses the store for one resolver, across restarts of the task.
NextRestart ==
    \/ MaybeNewNomadStore
    \/ Restart
    \/ \E c \in OwnerCalls : Invoke("t1", c, MaxRestartOps)
    \/ Lock("t1")
    \/ SetResolver("t1")
    \/ GetAccountLocked("t1")
    \/ GetAccountRemote("t1")
    \/ SaveAccountLocked("t1")
    \/ SaveAccountRemote("t1")
    \/ GetCertificatesLocked("t1")
    \/ GetCertificatesRemote("t1")
    \/ SaveCertificatesLocked("t1")
    \/ SaveCertificatesRemote("t1")

SpecRestart == Init /\ [][NextRestart]_vars

\* The calls two goroutines make on one resolver in SpecLive.
LiveCalls ==
    {c \in OwnerCalls : /\ c.op = "SaveAccount" => c.account = account1
                        /\ c.op = "SaveCertificates" => c.certificates = Slice(<<cert1, cert2>>)}

\* The calls of the second goroutine, which contends for the lock.
ContenderCalls == {c \in LiveCalls : c.op \in {"GetAccount", "SaveAccount"}}

LiveExternalVariables ==
    {v \in ExternalVariables : "account" \in DOMAIN v.Items}

NextLive ==
    \/ MaybeNewNomadStore
    \/ \E v \in LiveExternalVariables : ExternalCreate(v)
    \/ \E c \in LiveCalls : Invoke("t1", c, MaxLiveOps)
    \/ \E c \in ContenderCalls : Invoke("t2", c, MaxLiveOps)
    \/ \E t \in Procs : Lock(t)
    \/ \E t \in Procs : SetResolver(t)
    \/ \E t \in Procs : GetAccountLocked(t)
    \/ \E t \in Procs : GetAccountRemote(t)
    \/ \E t \in Procs : SaveAccountLocked(t)
    \/ \E t \in Procs : SaveAccountRemote(t)
    \/ \E t \in Procs : GetCertificatesLocked(t)
    \/ \E t \in Procs : GetCertificatesRemote(t)
    \/ \E t \in Procs : SaveCertificatesLocked(t)
    \/ \E t \in Procs : SaveCertificatesRemote(t)

\* The steps of goroutine t between ns.lock.Lock() and its return: the code
\* under the lock and the answer of the remote call.
Running(t) ==
    \/ SetResolver(t)
    \/ GetAccountLocked(t)
    \/ GetAccountRemote(t)
    \/ SaveAccountLocked(t)
    \/ SaveAccountRemote(t)
    \/ GetCertificatesLocked(t)
    \/ GetCertificatesRemote(t)
    \/ SaveCertificatesLocked(t)
    \/ SaveCertificatesRemote(t)

\* A goroutine that holds the lock keeps running and its remote call
\* returns; a goroutine that waits in ns.lock.Lock() gets the mutex if it is
\* free again and again (sync.Mutex hands the mutex to a starving waiter).
LiveFairness ==
    \A t \in Procs : WF_vars(Running(t)) /\ SF_vars(Lock(t))

\* Traefik runs as the Nomad task job1/group1/task1.
InitLive == Init /\ env = TaskEnv

SpecLive == InitLive /\ [][NextLive]_vars /\ LiveFairness

(***************************************************************************)
(* Properties.                                                             *)
(***************************************************************************)
Finished(t, ops) == pc[t] = "done" /\ call[t].op \in ops
Gets == {"GetAccount", "GetCertificates"}
Saves == {"SaveAccount", "SaveCertificates"}
ZeroOf(op) == IF op = "GetAccount" THEN NilPtr ELSE NilSlice
SavedArg(c) == IF c.op = "SaveAccount" THEN c.account ELSE c.certificates
NoBinding(t) == ret[t].err = ErrNoNomadVariableForResolver

\* C1 as stated: every get and save on a resolver without a path returns
\* ErrNoNomadVariableForResolver, in every reachable state.
C1_UnboundAlwaysErrors ==
    \A t \in Procs :
        (Finished(t, Gets \cup Saves) /\ ~call[t].bound0) => NoBinding(t)

\* C1 amended: on a resolver without a path every save returns
\* ErrNoNomadVariableForResolver; a get returns it when the cache of its kind
\* has no entry for the resolver, and otherwise returns the cached entry with
\* no error.
C1_UnboundErrorsUnlessCached ==
    \A t \in Procs :
        (Finished(t, Gets \cup Saves) /\ ~call[t].bound0) =>
            /\ call[t].op \in Saves => NoBinding(t)
            /\ (call[t].op \in Gets /\ ~call[t].cached0) =>
                    NoBinding(t) /\ ret[t].val = ZeroOf(call[t].op)
            /\ (call[t].op \in Gets /\ call[t].cached0) =>
                    ret[t].err = ErrNone /\ ret[t].val = call[t].cachedVal0

C1_Witness ==
    \E t \in Procs :
        /\ Finished(t, {"GetCertificates"})
        /\ ~call[t].bound0 /\ ~call[t].cached0
        /\ NoBinding(t)
        /\ call[t].resolverName \in DOMAIN accountCache

\* C2: a get on a resolver that has a cache entry returns that entry with no
\* error, makes no remote call, and leaves getVarHitCounter as it was.
C2_CacheHitNoRemote ==
    \A t \in Procs :
        (Finished(t, Gets) /\ call[t].cached0) =>
            /\ ret[t].err = ErrNone
            /\ ret[t].val = call[t].cachedVal0
            /\ ret[t].gets = 0
            /\ call[t].nGet = 0 /\ call[t].nCreate = 0

\* a second GetAccount after a first one that fetched account1 from Nomad
C2_Witness ==
    \E t \in Procs :
        /\ Finished(t, {"GetAccount"})
        /\ call[t].cached0 /\ call[t].bound0
        /\ ret[t].val = account1
        /\ nOps = 3 /\ getVarHitCounter = 1 /\ ret[t].gets = 0

\* C3: once a save for a resolver has written the cache, the cache entry is
\* the argument of the latest such save, and a get returns it without a
\* remote read.
C3_CacheIsLatestSave ==
    /\ \A r \in DOMAIN savedAccount :
           r \in DOMAIN accountCache /\ accountCache[r] = savedAccount[r]
    /\ \A r \in DOMAIN savedCerts :
           r \in DOMAIN certCache /\ certCache[r] = savedCerts[r]
    /\ \A t \in Procs :
           LET r     == call[t].resolverName
               saved == IF call[t].op = "GetAccount" THEN savedAccount ELSE savedCerts
           IN  (Finished(t, Gets) /\ r \in DOMAIN saved) =>
                   /\ ret[t].err = ErrNone
                   /\ ret[t].val = saved[r]
                   /\ ret[t].gets = 0 /\ call[t].nGet = 0

\* a GetAccount returning account2 after a SaveAccount whose Create failed
C3_Witness ==
    \E t \in Procs :
        /\ Finished(t, {"GetAccount"})
        /\ call[t].bound0
        /\ call[t].resolverName \in DOMAIN savedAccount
        /\ ret[t].val = account2
        /\ createHitCounter = 1 /\ variables = <<>>

\* C4: a get whose remote read reports path-not-found returns nil and no
\* error; no get returns ErrVariablePathNotFound.
C4_NotFoundIsNoError ==
    \A t \in Procs :
        /\ (Finished(t, Gets) /\ call[t].nGet = 1
                /\ call[t].remoteErr = ErrVariablePathNotFound) =>
               ret[t].err = ErrNone /\ ret[t].val = ZeroOf(call[t].op)
        /\ Finished(t, Gets) => ret[t].err # ErrVariablePathNotFound

C4_Witness ==
    \E t \in Procs :
        /\ Finished(t, {"GetCertificates"})
        /\ call[t].bound0 /\ ~call[t].cached0
        /\ call[t].remoteErr = ErrVariablePathNotFound
        /\ ret[t] = [val |-> NilSlice, err |-> ErrNone, gets |-> 1, creates |-> 0]

\* C5: no step of a get before its remote answer changes a cache, and a get
\* whose remote read fails with an error other than path-not-found returns
\* that error and nil, and leaves both caches as they were, without an entry
\* for its resolver.
C5_ReadErrorStep ==
    \A t \in Procs :
        /\ (call[t].op \in Gets /\ pc[t] \in {"called", "locked"} /\ pc'[t] # pc[t]) =>
               accountCache' = accountCache /\ certCache' = certCache
        /\ (call[t].op \in Gets /\ pc[t] = "remote" /\ pc'[t] = "done"
                /\ call'[t].remoteErr \notin {ErrNone, ErrVariablePathNotFound}) =>
               /\ ret'[t].err = call'[t].remoteErr
               /\ ret'[t].val = ZeroOf(call[t].op)
               /\ accountCache' = accountCache /\ certCache' = certCache
               /\ call[t].resolverName \notin DOMAIN CacheOf(call[t].op)'

C5_ReadErrorPropagates == [][C5_ReadErrorStep]_vars

\* GetAccount failed with "oops" while another resolver has a cached account
C5_Witness ==
    \E t \in Procs :
        /\ Finished(t, {"GetAccount"})
        /\ call[t].remoteErr = "oops" /\ ret[t].err = "oops"
        /\ call[t].resolverName \notin DOMAIN accountCache
        /\ DOMAIN accountCache # {}

\* C6: a save holds its argument in the cache while its remote write is in
\* flight, and when Create fails it returns that error with the argument
\* still in the cache.
C6_WriteErrorKeepsCache ==
    \A t \in Procs :
        LET r == call[t].resolverName
            c == CacheOf(call[t].op)
        IN  /\ (call[t].op \in Saves /\ pc[t] = "remote") =>
                   r \in DOMAIN c /\ c[r] = SavedArg(call[t])
            /\ (Finished(t, Saves) /\ call[t].nCreate = 1
                    /\ call[t].remoteErr # ErrNone) =>
                   /\ ret[t].err = call[t].remoteErr
                   /\ r \in DOMAIN c /\ c[r] = SavedArg(call[t])

C6_Witness ==
    \E t \in Procs :
        /\ Finished(t, {"SaveCertificates"})
        /\ call[t].remoteErr = "oops" /\ ret[t].err = "oops"
        /\ call[t].resolverName \in DOMAIN certCache
        /\ certCache[call[t].resolverName] = Slice(<<cert1, cert2>>)
        /\ variables = <<>>

\* C7: a save on a resolver without a path returns
\* ErrNoNomadVariableForResolver, makes no remote call, and leaves its
\* argument in the cache.
C7_UnboundSaveCaches ==
    \A t \in Procs :
        LET r == call[t].resolverName
            c == CacheOf(call[t].op)
        IN  (Finished(t, Saves) /\ ~call[t].bound0) =>
                /\ NoBinding(t)
                /\ call[t].nCreate = 0 /\ call[t].nGet = 0 /\ ret[t].gets = 0
                /\ r \in DOMAIN c /\ c[r] = SavedArg(call[t])

C7_Witness ==
    \E t \in Procs :
        /\ Finished(t, {"SaveAccount"})
        /\ ~call[t].bound0 /\ NoBinding(t)
        /\ call[t].resolverName \in DOMAIN accountCache
        /\ accountCache[call[t].resolverName] = account1
        /\ createHitCounter = 0 /\ getVarHitCounter = 0

\* C8: SaveAccount and GetAccount calls on one resolver never overlap inside
\* the lock, so they take effect one after another in the order of their
\* critical sections; a GetAccount entered after a SaveAccount returned, with
\* no other SaveAccount on the resolver under way or entered before the
\* GetAccount returns, returns that save's argument.
InCritical(t) == pc[t] \in {"locked", "remote"}

C8_SaveVisibleToLaterGet ==
    /\ \A t \in Procs :
           (Finished(t, {"GetAccount"}) /\ call[t].expectOn) =>
               ret[t].err = ErrNone /\ ret[t].val = call[t].expectVal
    /\ \A t, u \in Procs :
           (/\ InCritical(t) /\ InCritical(u)
            /\ {call[t].op, call[u].op} \subseteq {"GetAccount", "SaveAccount"}
            /\ call[t].resolverName = call[u].resolverName) => t = u

\* t2 got account2 that t1 saved, after an earlier save of account1
C8_Witness ==
    /\ Finished("t1", {"SaveAccount"}) /\ call["t1"].account = account2
    /\ Finished("t2", {"GetAccount"}) /\ call["t2"].expectOn
    /\ call["t2"].resolverName = call["t1"].resolverName
    /\ ret["t2"].val = account2
    /\ nOps = 3

\* C9: at most one goroutine is between Lock and Unlock, the goroutine whose
\* remote call is in flight holds the lock, and at most one remote call is in
\* flight.
C9_OneInCriticalSection ==
    /\ \A t, u \in Procs : (InCritical(t) /\ InCritical(u)) => t = u
    /\ \A t \in Procs : InCritical(t) => lock = t
    /\ Cardinality({t \in Procs : pc[t] = "remote"}) <= 1

\* t1's remote write is in flight while t2 waits with a GetAccount that
\* would hit the cache
C9_Witness ==
    /\ pc["t1"] = "remote" /\ call["t1"].op = "SaveCertificates"
    /\ pc["t2"] = "called" /\ call["t2"].op = "GetAccount"
    /\ call["t2"].resolverName \in DOMAIN accountCache
    /\ lock = "t1"

\* C10: after SetResolver with a hint whose remainder after "nomad://" is not
\* empty, the resolver's path is that remainder, whatever the environment.
C10_ExplicitPathVerbatim ==
    \A t \in Procs :
        LET r == call[t].resolverName
            h == call[t].variablesPath
        IN  Finished(t, {"SetResolver"}) =>
                /\ TrimPrefix(h, "nomad://") # "" =>
                       r \in DOMAIN paths /\ paths[r] = TrimPrefix(h, "nomad://")
                /\ h = "nomad://traefik/acme" =>
                       r \in DOMAIN paths /\ paths[r] = "traefik/acme"

C10_Witness ==
    \E t \in Procs :
        /\ Finished(t, {"SetResolver"})
        /\ call[t].variablesPath = "nomad://traefik/acme"
        /\ call[t].resolverName \in DOMAIN paths
        /\ paths[call[t].resolverName] = "traefik/acme"
        /\ env = BareEnv

\* C11: after SetResolver with a hint that is empty or only "nomad://", the
\* resolver's path is nomad/jobs/<job>/<group>/<task>/acme/<lower-cased
\* resolver> for the job, group and task the environment held when
\* SetResolver was called, also after the environment has changed.
C11_DerivedPath ==
    \A t \in Procs :
        LET r == call[t].resolverName
            a == call[t].ambient
        IN  (Finished(t, {"SetResolver"}) /\ call[t].variablesPath \in {"", "nomad://"}) =>
                /\ Len(a) = 3
                /\ r \in DOMAIN paths
                /\ paths[r] = "nomad/jobs/" \o a[1] \o "/" \o a[2] \o "/" \o a[3]
                              \o "/acme/" \o ToLower(r)
                /\ a = <<"job1", "group1", "task1">> =>
                       paths[r] = "nomad/jobs/job1/group1/task1/acme/le"
                /\ a = <<"", "", "">> => paths[r] = "nomad/jobs////acme/le"

\* "LE" was bound under job1/group1/task1 and the environment was emptied
\* afterwards
C11_Witness ==
    \E t \in Procs :
        /\ Finished(t, {"SetResolver"})
        /\ call[t].resolverName = "LE" /\ call[t].variablesPath = ""
        /\ call[t].ambient = <<"job1", "group1", "task1">>
        /\ env = BareEnv
        /\ "LE" \in DOMAIN paths
        /\ paths["LE"] = "nomad/jobs/job1/group1/task1/acme/le"

\* C12: a completed SetResolver leaves the resolver with a non-empty path,
\* whatever the hint and the environment; no step removes a path or makes it
\* empty; and no get or save on a resolver that has a path returns
\* ErrNoNomadVariableForResolver.
C12_BoundStep ==
    /\ DOMAIN paths \subseteq DOMAIN paths'
    /\ \A r \in DOMAIN paths' : paths'[r] # ""
    /\ \A t \in Procs :
           /\ (call[t].op = "SetResolver" /\ pc[t] = "locked" /\ pc'[t] = "done") =>
                  call[t].resolverName \in DOMAIN paths'
           /\ (call[t].op \in Gets \cup Saves /\ InCritical(t) /\ pc'[t] = "done"
                   /\ call[t].resolverName \in DOMAIN paths) =>
                  ret'[t].err # ErrNoNomadVariableForResolver

C12_StaysBound == [][C12_BoundStep]_vars

\* a SaveAccount succeeded on a resolver bound with every ambient value empty
C12_Witness ==
    \E t \in Procs :
        /\ Finished(t, {"SaveAccount"})
        /\ ret[t].err = ErrNone /\ ret[t].creates = 1
        /\ call[t].resolverName \in DOMAIN paths
        /\ paths[call[t].resolverName] = "nomad/jobs////acme/le"

KindOf(op) == IF op \in {"GetAccount", "SaveAccount"} THEN "account" ELSE "certificates"
EncodingOf(c) ==
    IF c.op = "SaveAccount" THEN MarshalAccount(c.account) ELSE MarshalCerts(c.certificates)

\* what a save's remote write does to Nomad: when Create succeeds the variable
\* at the written path holds exactly one item, keyed by the kind and holding
\* the encoding of the saved value, and no other variable changes; when it
\* fails nothing changes
WriteReplacesItems(t) ==
    (call[t].op \in Saves /\ pc[t] = "remote" /\ pc'[t] = "done") =>
        IF call'[t].remoteErr = ErrNone
        THEN /\ DOMAIN variables' = DOMAIN variables \cup {call[t].varPath}
             /\ DOMAIN variables'[call[t].varPath] = {KindOf(call[t].op)}
             /\ variables'[call[t].varPath][KindOf(call[t].op)] = EncodingOf(call[t])
             /\ \A q \in DOMAIN variables : q # call[t].varPath => variables'[q] = variables[q]
        ELSE variables' = variables

\* C13 as stated: a save's remote write targets <path of the resolver>/<kind>
\* and replaces the items stored there by the one item it writes.
C13_WriteAtPathSlashKindStep ==
    \A t \in Procs :
        /\ (call[t].op \in Saves /\ pc[t] = "locked" /\ pc'[t] = "remote") =>
               call'[t].varPath = paths[call[t].resolverName] \o "/" \o KindOf(call[t].op)
        /\ WriteReplacesItems(t)

C13_WriteAtJoinedPathStep ==
    \A t \in Procs :
        /\ (call[t].op \in Saves /\ pc[t] = "locked" /\ pc'[t] = "remote") =>
               LET p == paths[call[t].resolverName]
                   k == KindOf(call[t].op)
               IN  /\ call'[t].varPath = PathClean(p \o "/" \o k)
                   /\ (PathClean(p) = p /\ p # "/") => call'[t].varPath = p \o "/" \o k
                   /\ p = "nomad/jobs////acme/le" =>
                          call'[t].varPath = "nomad/jobs/acme/le/" \o k
        /\ WriteReplacesItems(t)

C14_NoRetries ==
    \A t \in Procs :
        /\ Finished(t, Gets) =>
               /\ ret[t].gets <= 1 /\ ret[t].creates = 0
               /\ (call[t].cached0 \/ ~call[t].bound0) => ret[t].gets = 0
               /\ (~call[t].cached0 /\ call[t].bound0) => ret[t].gets = 1
        /\ (Finished(t, Saves) /\ call[t].bound0) =>
               ret[t].creates = 1 /\ ret[t].gets = 0
        /\ (Finished(t, Gets \cup Saves)
                /\ call[t].remoteErr \notin {ErrNone, ErrVariablePathNotFound}) =>
               /\ ret[t].err = call[t].remoteErr
               /\ ret[t].gets + ret[t].creates = 1

\* a SaveAccount whose Create failed: one Create, the error returned
C14_Witness ==
    \E t \in Procs :
        /\ Finished(t, {"SaveAccount"})
        /\ call[t].bound0
        /\ call[t].remoteErr = "oops" /\ ret[t].err = "oops"
        /\ ret[t].creates = 1 /\ createHitCounter = 1

\* the text Nomad holds for goroutine t's remote read (the empty text when the
\* variable has no item of the kind) and its decoding
StoredText(t) ==
    LET k == KindOf(call[t].op) IN
    IF call[t].varPath \in DOMAIN variables /\ k \in DOMAIN variables[call[t].varPath]
    THEN variables[call[t].varPath][k]
    ELSE JEmpty

Decoded(t) ==
    IF call[t].op = "GetAccount"
    THEN UnmarshalAccount(StoredText(t))
    ELSE UnmarshalCerts(StoredText(t))

\* C15: when the remote read succeeds and the stored text does not decode,
\* the get returns the decoding error and nil and writes no cache, so the
\* cache has no entry for the resolver; and a get on a resolver with a path
\* and no cache entry always makes a remote read.
C15_DecodeErrorStep ==
    \A t \in Procs :
        /\ (call[t].op \in Gets /\ pc[t] = "remote" /\ pc'[t] = "done"
                /\ call'[t].remoteErr = ErrNone /\ Decoded(t).err # ErrNone) =>
               /\ ret'[t].err = Decoded(t).err
               /\ StoredText(t) = JInvalid => ret'[t].err = ErrJSON
               /\ StoredText(t) = JEmpty => ret'[t].err = ErrJSONEnd
               /\ ret'[t].val = ZeroOf(call[t].op)
               /\ accountCache' = accountCache /\ certCache' = certCache
               /\ call[t].resolverName \notin DOMAIN CacheOf(call[t].op)'
        /\ (call[t].op \in Gets /\ pc[t] = "locked" /\ pc'[t] # "locked"
                /\ call[t].resolverName \in DOMAIN paths
                /\ call[t].resolverName \notin DOMAIN CacheOf(call[t].op)) =>
               pc'[t] = "remote"
        /\ (call[t].op \in Gets /\ pc[t] = "remote" /\ pc'[t] = "done") =>
               getVarHitCounter' = getVarHitCounter + 1

C15_DecodeErrorNotCached == [][C15_DecodeErrorStep]_vars

\* a second GetAccount read Nomad again and failed to decode again
C15_Witness ==
    \E t \in Procs :
        /\ Finished(t, {"GetAccount"})
        /\ call[t].remoteErr = ErrNone /\ ret[t].err = ErrJSON
        /\ ret[t].val = NilPtr /\ ret[t].gets = 1
        /\ getVarHitCounter = 2
        /\ call[t].resolverName \notin DOMAIN accountCache

\* C16: no step removes an entry from the account cache or from the
\* certificate cache.
C16_NoEvictionStep ==
    /\ DOMAIN accountCache \subseteq DOMAIN accountCache'
    /\ DOMAIN certCache \subseteq DOMAIN certCache'

C16_NoEviction == [][C16_NoEvictionStep]_vars

\* a resolver whose account is cached was bound, and then a SaveCertificates
\* on it failed at Nomad
C16_Witness ==
    \E t \in Procs :
        /\ Finished(t, {"SaveCertificates"})
        /\ call[t].remoteErr = "oops"
        /\ call[t].bound0
        /\ call[t].resolverName \in DOMAIN accountCache
        /\ call[t].resolverName \in DOMAIN certCache
        /\ nOps = 3

\* C17: MaybeNewNomadStore returns a store exactly when NOMAD_TOKEN and
\* NOMAD_SECRETS_DIR are both non-empty, and nil otherwise; the store it
\* returns has no paths, no cached account and no cached certificates.
C17_CreationStep ==
    (ns = "none" /\ ns' # "none") =>
        /\ ns' \in {"store", "nil"}
        /\ ns' = "store" <=> (env[envNomadToken] # "" /\ env[envNomadSecretsDir] # "")
        /\ ns' = "nil" <=> (env[envNomadToken] = "" \/ env[envNomadSecretsDir] = "")
        /\ ns' = "store" => (paths' = <<>> /\ accountCache' = <<>> /\ certCache' = <<>>)

C17_StoreIffNomadTask == [][C17_CreationStep]_vars

\* nil was returned with the token set and the secrets directory missing
C17_Witness ==
    /\ ns = "nil"
    /\ env[envNomadToken] # "" /\ env[envNomadSecretsDir] = ""

Kinds == {"account", "certificates"}
CacheOfKind(k) == IF k = "account" THEN accountCache ELSE certCache
SavedOfKind(k) == IF k = "account" THEN savedAccount ELSE savedCerts
Quiescent == \A t \in Procs : pc[t] \in {"idle", "done"}

\* the cached value of resolver r for kind k is the decoding of the item
\* Nomad holds at r's item path
ConsistentWithRemote(r, k) ==
    LET q == PathJoin(paths[r], k) IN
    /\ q \in DOMAIN variables
    /\ k \in DOMAIN variables[q]
    /\ LET d == IF k = "account" THEN UnmarshalAccount(variables[q][k])
                ELSE UnmarshalCerts(variables[q][k])
       IN  d.err = ErrNone /\ d.val = CacheOfKind(k)[r]

C18_CachedStates ==
    \A r \in Resolvers, k \in Kinds :
        r \in DOMAIN CacheOfKind(k) =>
            IF r \in DOMAIN SavedOfKind(k)
            THEN CacheOfKind(k)[r] = SavedOfKind(k)[r]
            ELSE r \in DOMAIN paths

\* C18 amended, the steps: a get writes the cache only when its remote read
\* succeeded and decoded, and then with the decoded value; when the remote
\* write of a save succeeds the item at the written path is the encoding of
\* the cached value.
C18_ConsistentStep ==
    \A t \in Procs :
        LET r == call[t].resolverName IN
        /\ (call[t].op \in Gets /\ pc[t] = "remote" /\ pc'[t] = "done") =>
               IF call'[t].remoteErr = ErrNone /\ Decoded(t).err = ErrNone
               THEN /\ r \in DOMAIN CacheOf(call[t].op)'
                    /\ CacheOf(call[t].op)'[r] = Decoded(t).val
                    /\ r \in DOMAIN paths
               ELSE accountCache' = accountCache /\ certCache' = certCache
        /\ (call[t].op \in Saves /\ pc[t] = "remote" /\ pc'[t] = "done"
                /\ call'[t].remoteErr = ErrNone) =>
               /\ r \in DOMAIN CacheOf(call[t].op)'
               /\ CacheOf(call[t].op)'[r] = SavedArg(call[t])
               /\ variables'[call[t].varPath] =
                      [k \in {KindOf(call[t].op)} |-> EncodingOf(call[t])]

C19_PathsStep ==
    /\ paths' # paths =>
           \E t \in Procs :
               /\ call[t].op = "SetResolver" /\ pc[t] = "locked" /\ pc'[t] = "done"
               /\ paths' = MapSet(paths, call[t].resolverName, call[t].p)
    /\ env' # env => paths' = paths
    /\ \A t \in Procs :
           /\ (call[t].op \in Gets \cup Saves /\ pc'[t] # pc[t]) => paths' = paths
           /\ (call[t].op \in Gets \cup Saves /\ pc[t] = "locked" /\ pc'[t] = "remote") =>
                  LET p == paths[call[t].resolverName]
                      k == KindOf(call[t].op)
                  IN  /\ call'[t].varPath = PathJoin(p, k)
                      /\ p = "nomad/jobs/job1/group1/task1/acme/le" =>
                             call'[t].varPath = "nomad/jobs/job1/group1/task1/acme/le/" \o k

C19_OnlySetResolverBinds == [][C19_PathsStep]_vars

\* a GetAccount read the path bound under job1/group1/task1 after the
\* environment was emptied
C19_Witness ==
    \E t \in Procs :
        /\ Finished(t, {"GetAccount"})
        /\ call[t].nGet = 1
        /\ call[t].varPath = "nomad/jobs/job1/group1/task1/acme/le/account"
        /\ env = BareEnv
        /\ paths = [r \in {call[t].resolverName} |-> "nomad/jobs/job1/group1/task1/acme/le"]

\* C20: a GetCertificates that fetched an empty list from Nomad leaves the
\* empty list in the cache, and a GetCertificates that finds the empty list
\* in the cache returns it with no error and no remote read.
C20_EmptyListCached ==
    \A t \in Procs :
        LET r == call[t].resolverName IN
        /\ (Finished(t, {"GetCertificates"}) /\ call[t].nGet = 1
                /\ ret[t].err = ErrNone /\ ~ret[t].val.nil /\ Len(ret[t].val.elems) = 0) =>
               r \in DOMAIN certCache /\ certCache[r] = Slice(<<>>)
        /\ (Finished(t, {"GetCertificates"}) /\ call[t].cached0
                /\ call[t].cachedVal0 = Slice(<<>>)) =>
               /\ ret[t].err = ErrNone /\ ret[t].val = Slice(<<>>)
               /\ ret[t].gets = 0 /\ call[t].nGet = 0

\* the second GetCertificates returned the empty list that the first one
\* fetched; no SaveCertificates was made
C20_Witness ==
    \E t \in Procs :
        /\ Finished(t, {"GetCertificates"})
        /\ call[t].cached0 /\ call[t].cachedVal0 = Slice(<<>>)
        /\ ret[t].val = Slice(<<>>) /\ ret[t].gets = 0
        /\ savedCerts = <<>>
        /\ getVarHitCounter = 1 /\ nExternal = 1

OtherKind(k) == IF k = "account" THEN "certificates" ELSE "account"

\* C22: no step of a get or a save changes the cache of the other kind or
\* the variable at the item path of the other kind of its resolver, and the
\* remote call of a get or a save goes to the item path of its own kind,
\* which is not the item path of the other kind.
C22_KindsIndependentStep ==
    \A t \in Procs :
        (call[t].op \in Gets \cup Saves /\ InCritical(t) /\ pc'[t] # pc[t]) =>
            LET r == call[t].resolverName
                k == KindOf(call[t].op)
            IN  /\ CacheOfKind(OtherKind(k))' = CacheOfKind(OtherKind(k))
                /\ r \in DOMAIN paths =>
                       LET q == PathJoin(paths[r], OtherKind(k)) IN
                       /\ q \in DOMAIN variables' <=> q \in DOMAIN variables
                       /\ q \in DOMAIN variables => variables'[q] = variables[q]
                /\ pc'[t] = "remote" =>
                       /\ call'[t].varPath = PathJoin(paths[r], k)
                       /\ call'[t].varPath # PathJoin(paths[r], OtherKind(k))

C22_KindsIndependent == [][C22_KindsIndependentStep]_vars

\* the account and the certificates of one resolver are both stored, each in
\* its own variable
C22_Witness ==
    \E t \in Procs :
        LET p == paths[call[t].resolverName] IN
        /\ Finished(t, {"SaveCertificates"})
        /\ call[t].bound0 /\ ret[t].err = ErrNone
        /\ nExternal = 0
        /\ DOMAIN variables = {PathJoin(p, "account"), PathJoin(p, "certificates")}
        /\ DOMAIN variables[PathJoin(p, "account")] = {"account"}
        /\ variables[PathJoin(p, "certificates")] =
               [k \in {"certificates"} |-> MarshalCerts(call[t].certificates)]

\* C23: two distinct resolver names that are both bound to the path
\* SetResolver derives for them from the same job, group and task are bound
\* to distinct paths (so neither's saves and gets reach the other's items).
C23_DerivedPathsDistinct ==
    \A r1, r2 \in DOMAIN paths :
        (/\ r1 # r2
         /\ paths[r1] = SetResolverPath(r1, NomadScheme)
         /\ paths[r2] = SetResolverPath(r2, NomadScheme))
        => /\ paths[r1] # paths[r2]
           /\ \A k \in Kinds : PathJoin(paths[r1], k) # PathJoin(paths[r2], k)

\* C24: a get whose remote read answers path-not-found returns the zero value
\* and no error and writes no cache, so the cache of its kind has no entry
\* for the resolver; the next get of that kind on that resolver makes one
\* remote read again, and when that read succeeds and the item at its path
\* decodes, it returns the decoded value (the account or the list that was
\* stored there).
C24_NotFoundNotCachedStep ==
    \A t \in Procs :
        LET r == call[t].resolverName IN
        /\ (call[t].op \in Gets /\ pc[t] = "remote" /\ pc'[t] = "done"
                /\ call'[t].remoteErr = ErrVariablePathNotFound) =>
               /\ ret'[t].val = ZeroOf(call[t].op) /\ ret'[t].err = ErrNone
               /\ accountCache' = accountCache /\ certCache' = certCache
               /\ r \notin DOMAIN CacheOf(call[t].op)'
        /\ (call[t].afterNotFound /\ pc[t] = "locked" /\ pc'[t] # "locked") =>
               /\ pc'[t] = "remote"
               /\ call'[t].varPath = PathJoin(paths[r], KindOf(call[t].op))
        /\ (call[t].afterNotFound /\ pc[t] = "remote" /\ pc'[t] = "done") =>
               /\ call'[t].nGet = 1
               /\ getVarHitCounter' = getVarHitCounter + 1
               /\ (call'[t].remoteErr = ErrNone /\ Decoded(t).err = ErrNone) =>
                      /\ ret'[t].err = ErrNone
                      /\ ret'[t].val = Decoded(t).val
                      /\ r \in DOMAIN CacheOf(call[t].op)'
                      /\ CacheOf(call[t].op)'[r] = Decoded(t).val
               /\ \A a \in Accounts :
                      (call[t].op = "GetAccount" /\ call'[t].remoteErr = ErrNone
                           /\ StoredText(t) = MarshalAccount(a)) =>
                          ret'[t].err = ErrNone /\ ret'[t].val = a
               /\ \A l \in CertLists :
                      (call[t].op = "GetCertificates" /\ call'[t].remoteErr = ErrNone
                           /\ StoredText(t) = MarshalCerts(l)) =>
                          ret'[t].err = ErrNone /\ ret'[t].val = l

C24_NotFoundNotCached == [][C24_NotFoundNotCachedStep]_vars

\* a get found no variable, the account was then written to Nomad, and the
\* next get read Nomad again and returned it
C24_Witness ==
    \E t \in Procs :
        /\ Finished(t, {"GetAccount"})
        /\ call[t].afterNotFound
        /\ call[t].nGet = 1
        /\ ret[t].err = ErrNone /\ ret[t].val = account1
        /\ getVarHitCounter = 2
        /\ nExternal = 1

\* C25: a goroutine that is not inside a call does not hold the lock,
\* whichever way its call returned, and only a goroutine between Lock and its
\* return holds it; and, the remote calls returning and the lock being
\* acquired fairly, every call that was invoked returns.
C25_EveryCallCompletes ==
    /\ [](\A t \in Procs :
            /\ pc[t] \in {"idle", "called", "done"} => lock # t
            /\ InCritical(t) => lock = t)
    /\ \A t \in Procs : (pc[t] \in {"called", "locked", "remote"}) ~> (pc[t] = "done")

\* one goroutine got the no-path error, the other then got a decoding error
\* from the variable it read, and the lock is free
C25_Witness ==
    /\ Finished("t2", {"GetAccount"}) /\ NoBinding("t2")
    /\ Finished("t1", {"GetAccount"}) /\ ret["t1"].err = ErrJSON
    /\ call["t1"].nGet = 1
    /\ lock = NoProc
    /\ nOps = 3

====
